---- MODULE Spec2Model ----
(***************************************************************************)
(* Model of traefik-dns-rs: the reconciliation engine (src/updater.rs),    *)
(* the provider calls it makes (src/dns/cloudflare.rs, src/dns/route53.rs) *)
(* and the fixed-window rate limiter (src/rate_limit.rs).                  *)
(*                                                                         *)
(* Spec        : run() and its passes of Updater::update_routes against a  *)
(*               Router and a Provider (Cloudflare or Route 53) whose      *)
(*               record set is `records`.                                  *)
(* SpecClosed  : the same, the engine alone changing the records.          *)
(* SpecFair    : SpecClosed with time that passes and ticks that are taken.*)
(* LimiterSpec : callers of RateLimit::try_ready and RateLimit::ready on   *)
(*               one limiter, with a clock.                                *)
(* LimiterFair : LimiterSpec with a clock that advances and callers that   *)
(*               are scheduled.                                            *)
(* SpecLate    : SpecClosed on a runtime that may take a tick late.        *)
(* SpecNoFaults: passes whose Router and Provider always answer.           *)
(* ListingSpec : Route53Provider::list_records applied to an answer of the *)
(*               zone listing, and the delete step applied to its result.  *)
(***************************************************************************)
EXTENDS Integers, Sequences, FiniteSets, TLC

\* ------------------------------------------------------------------ bounds
\* Longest route list a Router answer holds in the model.
MaxRoutes == 3

\* Updater.update_interval in the model's time unit: the period of the tick
\* timer of run().
UpdateInterval == 2

\* RateLimit::new(Capacity, Period): the limiter of the model.
Capacity == 2
Period == 2
\* The clock runs from 0 (the limiter's `start`) to MaxTime.
MaxTime == 7
\* Calls of try_ready or ready one caller makes.
MaxCalls == 5
\* Width of the time counters in the model's time unit (u64 in the code).
WordBits == 5
Modulus == 2 ^ WordBits

\* Longest record-set listing of the hosted zone in the model.
MaxZone == 3
\* Most trailing dots a record name of the listing ends with.
MaxDots == 1

Callers == {"c1", "c2"}

\* Host names of the model, in the fixed order used to enumerate a set.
HostOrder == <<"a", "b", "c">>
Hosts == {HostOrder[i] : i \in 1..Len(HostOrder)}

\* ------------------------------------------------------------------ state
VARIABLES
    current_routes, \* Updater.current_routes: the observed state (HashSet)
    records,        \* hosts that have a record at the provider
    pc,             \* where update_routes is suspended; "idle" = no pass
    resp,           \* Ok(Vec<Route>) answer of get_routes in this pass
    routes,         \* the local `routes` HashSet of update_routes
    createCalls,    \* create_record calls issued in this pass, in order
    listed,         \* Ok(Vec<String>) answer of list_records in this pass
    delCalls,       \* delete_record calls issued in this pass, in order
    pending,        \* indices of the calls of the running batch in flight
    result,         \* how the last pass ended
    stage,          \* how far this pass got: which steps have been issued
    before,         \* current_routes when this pass started
    nGet,           \* get_routes calls of this pass
    nList,          \* list_records calls of this pass
    prev,           \* <<desired set>> of the pass before this one if it
                    \* returned Ok(()), <<>> otherwise
    loop,           \* where run() is: "tick" = at interval.tick().await,
                    \* "pass" = at time::timeout(..).await, "returned"
    age,            \* time since the last pass started (kept after its end)
    inFlight,       \* executions of update_routes started and not yet ended
    tickDue,        \* the interval has a tick that run() has not taken yet
    phase,          \* time since the interval's last scheduled tick instant
    provider,       \* the Provider implementation the Updater was built with
    err,            \* the error the last pass returned, "none" if none
    locked,         \* the Mutex of current_routes is held (a MutexGuard lives)
    missed,         \* the interval reached its last scheduled instant while
                    \* the tick before it had not been taken
    permits,        \* limiter permits acquired by the list_records and
                    \* delete_record calls of this pass that have returned Ok
    used,           \* RateLimit.used
    reset,          \* RateLimit.reset, measured from start
    now,            \* the clock, measured from RateLimit.start
    cpc,            \* per caller: where it is in try_ready / ready
    mode,           \* per caller: the call it is in: "try_ready", "ready", "none"
    elapsed,        \* per caller: the local `elapsed` of try_ready
    resetSeen,             \* per caller: the local `reset` of ready
    slept,          \* per caller: the clock when it computed wait_time
    wait,           \* per caller: the local `wait_time` of ready
    calls,          \* per caller: calls made so far
    granted,        \* try_ready calls that returned true in the clock's
                    \* current window: the limiter compares elapsed > reset,
                    \* so window k holds the instants k * Period < t <=
                    \* (k + 1) * Period (and window 0 the instant 0)
    zone,           \* resource_record_sets of the ListResourceRecordSets answer
    names,          \* Ok(Vec<String>) of Route53Provider::list_records
    wanted,         \* the `routes` HashSet the delete step filters against
    toDelete,       \* the routes_to_delete Vec of update_routes
    lpc             \* "start", "listed" (list_records has returned),
                    \* "diffed" (routes_to_delete is computed)

engineVars == <<current_routes, records, pc, resp, routes, createCalls, listed,
                delCalls, pending, result, stage, before, nGet, nList, prev,
                loop, age, inFlight, tickDue, phase, provider, err, locked,
                missed, permits>>
limiterVars == <<used, reset, now, cpc, mode, elapsed, resetSeen, slept, wait,
                 calls, granted>>
listingVars == <<zone, names, wanted, toDelete, lpc>>
vars == <<engineVars, limiterVars, listingVars>>

\* ---------------------------------------------------------------- helpers
Range(s) == {s[i] : i \in 1..Len(s)}

\* A set of hosts as a sequence holding each member once.
SetToSeq(S) == SelectSeq(HostOrder, LAMBDA h : h \in S)

\* Route { id, host }: the answers a Router can give.
Route(i, h) == [id |-> i, host |-> h]
RouterAnswers ==
    UNION {{[i \in 1..n |-> Route(i, f[i])] : f \in [1..n -> Hosts]} : n \in 0..MaxRoutes}

\* .into_iter().map(|r| r.host).collect::<HashSet<_>>()
CollectHosts(answer) == {answer[i].host : i \in 1..Len(answer)}

\* routes.iter().filter(|&domain| !current_routes.contains(domain))
ToCreateNoFilter(rts, cur) == SetToSeq(rts)
ToCreateByProvider(rts, cur) == SetToSeq({h \in rts : h \notin records})
ToCreatePerRoute(rts, cur) ==
    SelectSeq([i \in 1..Len(resp') |-> resp'[i].host], LAMBDA h : h \notin cur)
ToCreateMissing(rts, cur) == SetToSeq({h \in rts : h \notin cur \/ h \notin records})
ToCreate(rts, cur) == SetToSeq({h \in rts : h \notin cur})

\* list.into_iter().filter(|s| !routes.contains(s)).collect::<Vec<_>>()
ToDeleteByObserved(list, rts, cur) == SelectSeq(list, LAMBDA s : s \in cur /\ s \notin rts)
ToDeleteInverted(list, rts, cur) == SelectSeq(list, LAMBDA s : s \in rts)
ToDelete(list, rts, cur) == SelectSeq(list, LAMBDA s : s \notin rts)

\* *current_routes = routes
CommitMerge(cur, rts) == cur \cup rts
Commit(cur, rts) == rts

\* time::timeout(self.update_interval, self.update_routes())
DeadlineTwice == 2 * UpdateInterval
Deadline == UpdateInterval

\* run() awaits the pass it started: it is at the timeout's .await until the
\* pass has returned or has been dropped.
SpawnPass == "tick"
AwaitPass == "pass"

\* The match on the outcome of the pass: Ok(Ok(_)) => (), Ok(Err(e)) =>
\* error!(..), Err(_) => error!(..); every arm falls through to the next
\* iteration of the loop.
LoopPropagating(res) == IF res = "ok" THEN "tick" ELSE "returned"
LoopAfterPass(res) == "tick"

\* `let mut current_routes = self.current_routes.lock().await;`: the guard is
\* a local of update_routes, dropped when the function returns (Ok or Err)
\* and when the timeout drops the suspended future.
LockAfterTimeout(res) == res = "timeout"
LockAfter(res) == FALSE

\* interval.set_missed_tick_behavior(MissedTickBehavior::Skip): once tick()
\* has completed, no tick is due before the next scheduled instant, however
\* many instants went by untaken.
NextDueBurst(wasMissed) == wasMissed
NextDue(wasMissed) == FALSE

\* The Provider implementations: dns::cloudflare::CloudflareProvider and
\* dns::route53::Route53Provider.
ProviderKinds == {"cloudflare", "route53"}

\* Provider::list_records on the provider's record set.
ListRecords(recs) == SetToSeq(recs)

\* What precedes a remote request. Every method of WrappedCloudflareClient
\* starts with self.limiter.ready().await; Route53Provider holds no
\* RateLimit and sends through the SDK client directly.
Acquire(k) == IF k = "cloudflare" THEN <<"acquire">> ELSE <<>>

\* The limiter acquires of a call.
Acquires(trace) == Cardinality({j \in 1..Len(trace) : trace[j] = "acquire"})

\* A list_records call: the limiter acquires and remote requests it makes.
ListRecordsTrace(k) == Acquire(k) \o <<"list">>

\* The error of delete_record for a host without a record.
NotFound(k) == IF k = "cloudflare" THEN "RecordNotFound" ELSE "MissingRecord"

\* A create_record(h) call that reaches the remote API, by its outcome, its
\* acquires and requests, and the records it leaves. Route53Provider sends a
\* change batch with ChangeAction::Upsert, which sets the record whether or
\* not it exists. The Cloudflare client sends CreateDnsRecord, which only
\* creates: the API answers with an error when the name has the record.
CreateRecord(k, recs, h) ==
    IF k = "route53"
      THEN [result |-> "ok", trace |-> Acquire(k) \o <<"upsert">>,
            records |-> recs \cup {h}]
      ELSE IF h \in recs
        THEN [result |-> "ApiError", trace |-> Acquire(k) \o <<"create">>,
              records |-> recs]
        ELSE [result |-> "ok", trace |-> Acquire(k) \o <<"create">>,
              records |-> recs \cup {h}]

\* A delete_record(h) call that reaches the remote API: the records are
\* listed, the one named h is looked for, and only if it is found is the
\* delete request sent.
DeleteRecordBlind(k, recs, h) ==
    [result |-> "ok",
     trace |-> Acquire(k) \o <<"list">> \o Acquire(k) \o <<"delete">>,
     records |-> recs \ {h}]
DeleteRecordOneAcquire(k, recs, h) ==
    IF h \in Range(ListRecords(recs))
      THEN [result |-> "ok",
            trace |-> Acquire(k) \o <<"list", "delete">>,
            records |-> recs \ {h}]
      ELSE [result |-> NotFound(k),
            trace |-> Acquire(k) \o <<"list">>,
            records |-> recs]
DeleteRecord(k, recs, h) ==
    IF h \in Range(ListRecords(recs))
      THEN [result |-> "ok",
            trace |-> Acquire(k) \o <<"list">> \o Acquire(k) \o <<"delete">>,
            records |-> recs \ {h}]
      ELSE [result |-> NotFound(k),
            trace |-> Acquire(k) \o <<"list">>,
            records |-> recs]

\* ------------------------------------------------------------------- Init
EngineInit(recs, kinds) ==
    /\ current_routes = {}
    /\ records \in recs
    /\ pc = "idle"
    /\ resp = <<>>
    /\ routes = {}
    /\ createCalls = <<>>
    /\ listed = <<>>
    /\ delCalls = <<>>
    /\ pending = {}
    /\ result = "none"
    /\ stage = "none"
    /\ before = {}
    /\ nGet = 0
    /\ nList = 0
    /\ prev = <<>>
    /\ loop = "tick"
    /\ age = 0
    /\ inFlight = 0
    /\ tickDue = TRUE
    /\ phase = 0
    /\ provider \in kinds
    /\ err = "none"
    /\ locked = FALSE
    /\ missed = FALSE
    /\ permits = 0

\* The destination the Route53Provider was built with, and another value.
Dest == "traefik.example.com"
OtherDest == "elsewhere.example.com"

\* A record name: a host followed by `dots` trailing dots.
Name(h, n) == [host |-> h, dots |-> n]
ZoneHosts == {"a", "b"}

\* ResourceRecordSet { name, type, resource_records }, with the one value a
\* record set of the model holds.
RecordSets ==
    [name : {Name(h, n) : h \in ZoneHosts, n \in 0..MaxDots},
     type : {"CNAME", "A"},
     value : {Dest, OtherDest}]
ZoneListings == UNION {[1..n -> RecordSets] : n \in 0..MaxZone}

\* if s.ends_with('.') { s.pop(); }
StripDot(nm) == IF nm.dots > 0 THEN Name(nm.host, nm.dots - 1) ELSE nm

\* .filter(|r| r.type == CNAME && some value of r == self.dest)
\* .filter_map(|r| r.name).map(strip one trailing dot).collect()
Route53ListByType(z) ==
    LET kept == SelectSeq(z, LAMBDA r : r.type = "CNAME")
    IN  [i \in 1..Len(kept) |-> StripDot(kept[i].name)]
Route53List(z) ==
    LET kept == SelectSeq(z, LAMBDA r : r.type = "CNAME" /\ r.value = Dest)
    IN  [i \in 1..Len(kept) |-> StripDot(kept[i].name)]

\* No listing is looked at: the engine and the limiter specifications.
ListingIdle ==
    /\ zone = <<>>
    /\ names = <<>>
    /\ wanted = {}
    /\ toDelete = <<>>
    /\ lpc = "start"

\* The zone answers list_records with any listing.
ListingInit ==
    /\ zone \in ZoneListings
    /\ names = <<>>
    /\ wanted = {}
    /\ toDelete = <<>>
    /\ lpc = "start"

\* RateLimit::new
LimiterInit ==
    /\ used = 0
    /\ reset = Period
    /\ now = 0
    /\ cpc = [c \in Callers |-> "idle"]
    /\ mode = [c \in Callers |-> "none"]
    /\ elapsed = [c \in Callers |-> 0]
    /\ resetSeen = [c \in Callers |-> 0]
    /\ slept = [c \in Callers |-> 0]
    /\ wait = [c \in Callers |-> 0]
    /\ calls = [c \in Callers |-> 0]
    /\ granted = 0

Init == EngineInit(SUBSET Hosts, ProviderKinds) /\ LimiterInit /\ ListingIdle

\* try_join_all(batch).await? goes on to the next step when the last call of
\* the batch has returned Ok.
BatchDoneFirst(pend, i) == TRUE
BatchDone(pend, i) == pend = {i}

\* ---------------------------------------------------------------- actions
\* A tick of run(): interval.tick() completes (the first tick at once, the
\* others once a scheduled instant has been reached), update_routes is
\* started under the timeout, takes the lock and calls get_routes.
StartPass ==
    /\ loop = "tick"
    /\ tickDue
    /\ tickDue' = NextDue(missed)
    /\ locked' = TRUE
    /\ loop' = AwaitPass
    /\ age' = 0
    /\ inFlight' = inFlight + 1
    /\ pc' = "get_routes"
    /\ before' = current_routes
    /\ prev' = IF result = "ok" THEN <<routes>> ELSE <<>>
    /\ result' = "none"
    /\ stage' = "get"
    /\ resp' = <<>>
    /\ routes' = {}
    /\ createCalls' = <<>>
    /\ listed' = <<>>
    /\ delCalls' = <<>>
    /\ pending' = {}
    /\ nGet' = 1
    /\ nList' = 0
    /\ err' = "none"
    /\ permits' = 0
    /\ UNCHANGED <<current_routes, records, phase, provider, missed>>
    /\ UNCHANGED <<limiterVars, listingVars>>

\* The pass ends in an error (or is dropped by the timeout): the calls of
\* the batch still in flight in `applied` have reached the provider, the
\* others have not; current_routes is not assigned.
AbortCommitting(kind, e, applied) ==
    /\ result' = kind
    /\ err' = e
    /\ pc' = "idle"
    /\ loop' = LoopAfterPass(kind)
    /\ locked' = LockAfter(kind)
    /\ inFlight' = inFlight - 1
    /\ pending' = {}
    /\ records' = IF pc = "create" THEN records \cup {createCalls[i] : i \in applied}
                  ELSE IF pc = "delete" THEN records \ {delCalls[i] : i \in applied}
                  ELSE records
    /\ current_routes' = routes
    /\ UNCHANGED <<resp, routes, createCalls, listed, delCalls, stage, before,
                   nGet, nList, prev, age, tickDue, phase, provider, missed, permits>>
    /\ UNCHANGED <<limiterVars, listingVars>>

\* A pass that would go on to list_records after an error.
AbortListing(kind, e, applied) ==
    /\ result' = kind
    /\ err' = e
    /\ pc' = "idle"
    /\ loop' = LoopAfterPass(kind)
    /\ locked' = LockAfter(kind)
    /\ inFlight' = inFlight - 1
    /\ pending' = {}
    /\ records' = IF pc = "create" THEN records \cup {createCalls[i] : i \in applied}
                  ELSE IF pc = "delete" THEN records \ {delCalls[i] : i \in applied}
                  ELSE records
    /\ nList' = nList + 1
    /\ UNCHANGED <<current_routes, resp, routes, createCalls, listed, delCalls,
                   stage, before, nGet, prev, age, tickDue, phase, provider, missed, permits>>
    /\ UNCHANGED <<limiterVars, listingVars>>

\* A pass that would undo the creates of its batch after an error.
AbortRollingBack(kind, e, applied) ==
    /\ result' = kind
    /\ err' = e
    /\ pc' = "idle"
    /\ loop' = LoopAfterPass(kind)
    /\ locked' = LockAfter(kind)
    /\ inFlight' = inFlight - 1
    /\ pending' = {}
    /\ records' = IF pc = "create" THEN records \ Range(createCalls)
                  ELSE IF pc = "delete" THEN records \cup Range(delCalls)
                  ELSE records
    /\ UNCHANGED <<current_routes, resp, routes, createCalls, listed, delCalls,
                   stage, before, nGet, nList, prev, age, tickDue, phase,
                   provider, missed, permits>>
    /\ UNCHANGED <<limiterVars, listingVars>>

Abort(kind, e, applied) ==
    /\ result' = kind
    /\ err' = e
    /\ pc' = "idle"
    /\ loop' = LoopAfterPass(kind)
    /\ locked' = LockAfter(kind)
    /\ inFlight' = inFlight - 1
    /\ pending' = {}
    /\ records' = IF pc = "create" THEN records \cup {createCalls[i] : i \in applied}
                  ELSE IF pc = "delete" THEN records \ {delCalls[i] : i \in applied}
                  ELSE records
    /\ UNCHANGED <<current_routes, resp, routes, createCalls, listed, delCalls,
                   stage, before, nGet, nList, prev, age, tickDue, phase,
                   provider, missed, permits>>
    /\ UNCHANGED <<limiterVars, listingVars>>

\* `*current_routes = routes; Ok(())` after the last await of the pass.
Finish(recs) ==
    /\ current_routes' = Commit(current_routes, routes)
    /\ records' = recs
    /\ result' = "ok"
    /\ pc' = "idle"
    /\ loop' = LoopAfterPass("ok")
    /\ locked' = LockAfter("ok")
    /\ inFlight' = inFlight - 1
    /\ pending' = {}

\* The delete step, entered with the answer of list_records.
EnterDelete(list, recs) ==
    /\ listed' = list
    /\ delCalls' = ToDelete(list, routes, current_routes)
    /\ IF delCalls' = <<>>
         THEN /\ Finish(recs)
              /\ stage' = "commit"
         ELSE /\ pc' = "delete"
              /\ pending' = 1..Len(delCalls')
              /\ stage' = "delete"
              /\ records' = recs
              /\ UNCHANGED <<current_routes, result, loop, inFlight, locked>>

\* The list step: list_records is called once every create has returned Ok.
EnterList(recs) ==
    /\ pc' = "list"
    /\ stage' = "list"
    /\ nList' = nList + 1
    /\ pending' = {}
    /\ records' = recs
    /\ UNCHANGED <<current_routes, result, listed, delCalls, loop, inFlight, locked>>

\* get_routes returns Ok(answer): the desired set is collected, and the creates
\* are all issued (try_join_all collects the iterator and polls every future).
GetRoutesOk ==
    /\ pc = "get_routes"
    /\ \E answer \in RouterAnswers :
         /\ resp' = answer
         /\ routes' = CollectHosts(answer)
         /\ createCalls' = ToCreate(routes', current_routes)
         /\ IF createCalls' = <<>>
              THEN EnterList(records)
              ELSE /\ pc' = "create"
                   /\ stage' = "create"
                   /\ pending' = 1..Len(createCalls')
                   /\ UNCHANGED <<current_routes, records, result, listed,
                                  delCalls, nList, loop, inFlight, locked>>
    /\ UNCHANGED <<before, nGet, prev, age, tickDue, phase, provider, err, missed, permits>>
    /\ UNCHANGED <<limiterVars, listingVars>>

\* get_routes returns Err: `?` returns RouterError.
GetRoutesErr ==
    /\ pc = "get_routes"
    /\ Abort("router_err", "RouterError", {})

\* One create_record call returns Ok: the record exists at the provider.
CreateOk ==
    /\ pc = "create"
    /\ \E i \in pending :
         LET call == CreateRecord(provider, records, createCalls[i])
             recs == call.records IN
         /\ call.result = "ok"
         /\ IF BatchDone(pending, i)
              THEN EnterList(recs)
              ELSE /\ pending' = pending \ {i}
                   /\ records' = recs
                   /\ UNCHANGED <<pc, stage, nList, current_routes, result,
                                  listed, delCalls, loop, inFlight, locked>>
    /\ UNCHANGED <<resp, routes, createCalls, before, nGet, prev, age, tickDue,
                   phase, provider, err, missed, permits>>
    /\ UNCHANGED <<limiterVars, listingVars>>

\* One create_record call returns Err (the remote API refuses the request or
\* cannot be reached) and has changed nothing: try_join_all returns the error
\* at once and drops the other futures.
CreateErr ==
    /\ pc = "create"
    /\ \E i \in pending :
         \E applied \in SUBSET (pending \ {i}) :
           Abort("provider_err", "ApiError", applied)

\* One create_record call returns the provider's own refusal of the request
\* (Cloudflare: the name already has a record), with every remote call
\* reachable and answering.
CreateRefused ==
    /\ pc = "create"
    /\ \E i \in pending :
         LET call == CreateRecord(provider, records, createCalls[i]) IN
         /\ call.result # "ok"
         /\ \E applied \in SUBSET (pending \ {i}) :
              Abort("provider_err", call.result, applied)

\* list_records returns Ok(list).
ListOk ==
    /\ pc = "list"
    /\ EnterDelete(ListRecords(records), records)
    /\ permits' = permits + Acquires(ListRecordsTrace(provider))
    /\ UNCHANGED <<resp, routes, createCalls, before, nGet, nList, prev, age,
                   tickDue, phase, provider, err, missed>>
    /\ UNCHANGED <<limiterVars, listingVars>>

\* list_records returns Err.
ListErr ==
    /\ pc = "list"
    /\ Abort("provider_err", "ApiError", {})

\* One delete_record call returns Ok: the record it named is gone. A call
\* for a host without a record cannot return Ok (the providers answer
\* MissingRecord / RecordNotFound).
DeleteOk ==
    /\ pc = "delete"
    /\ \E i \in pending :
         /\ DeleteRecord(provider, records, delCalls[i]).result = "ok"
         /\ permits' = permits
                + Acquires(DeleteRecord(provider, records, delCalls[i]).trace)
         /\ LET recs == DeleteRecord(provider, records, delCalls[i]).records IN
            IF BatchDone(pending, i)
              THEN /\ Finish(recs)
                   /\ stage' = "commit"
              ELSE /\ pending' = pending \ {i}
                   /\ records' = recs
                   /\ UNCHANGED <<pc, stage, current_routes, result, loop, inFlight, locked>>
    /\ UNCHANGED <<resp, routes, createCalls, listed, delCalls, before, nGet,
                   nList, prev, age, tickDue, phase, provider, err, missed>>
    /\ UNCHANGED <<limiterVars, listingVars>>

\* One delete_record call returns Err and has changed nothing: the error of
\* the call itself (no record named as asked) or a failure of one of its
\* remote requests.
DeleteErr ==
    /\ pc = "delete"
    /\ \E i \in pending :
         \E e \in {DeleteRecord(provider, records, delCalls[i]).result, "ApiError"} \ {"ok"} :
           \E applied \in SUBSET (pending \ {i}) :
             Abort("provider_err", e, applied)

\* time::timeout elapses while update_routes is suspended in an await: the
\* future is dropped.
Timeout ==
    /\ pc # "idle"
    /\ age >= Deadline
    /\ \E applied \in SUBSET pending : Abort("timeout", "Elapsed", applied)

\* Somebody else adds or removes a record at the provider.
ExternalChange ==
    /\ \E h \in Hosts :
         records' = IF h \in records THEN records \ {h} ELSE records \cup {h}
    /\ UNCHANGED <<current_routes, pc, resp, routes, createCalls, listed,
                   delCalls, pending, result, stage, before, nGet, nList, prev,
                   loop, age, inFlight, tickDue, phase, provider, err, locked,
                   missed, permits>>
    /\ UNCHANGED <<limiterVars, listingVars>>

\* One unit of time passes. It does not pass while run() is at
\* interval.tick() with a tick due (tick() completes at once), nor beyond the
\* deadline of a running pass (the timeout fires). The interval reaches a
\* scheduled instant every UpdateInterval; with MissedTickBehavior::Skip a
\* tick that was not taken is not kept beside the new one.
Advance ==
    /\ ~(loop = "tick" /\ tickDue)
    /\ pc # "idle" => age < Deadline
    /\ phase' = (phase + 1) % UpdateInterval
    /\ tickDue' = (tickDue \/ phase' = 0)
    /\ missed' = IF phase' = 0 THEN tickDue ELSE missed
    /\ age' = IF pc # "idle" THEN age + 1 ELSE age
    /\ UNCHANGED <<current_routes, records, pc, resp, routes, createCalls,
                   listed, delCalls, pending, result, stage, before, nGet,
                   nList, prev, loop, inFlight, provider, err, locked,
                   permits>>
    /\ UNCHANGED <<limiterVars, listingVars>>

\* run() is not polled when its tick is due (the runtime is busy with other
\* tasks): a unit of time passes with the tick still untaken, and the
\* interval may reach its next scheduled instant meanwhile.
Late ==
    /\ loop = "tick"
    /\ tickDue
    /\ phase' = (phase + 1) % UpdateInterval
    /\ missed' = IF phase' = 0 THEN tickDue ELSE missed
    /\ UNCHANGED <<current_routes, records, pc, resp, routes, createCalls,
                   listed, delCalls, pending, result, stage, before, nGet,
                   nList, prev, loop, age, inFlight, tickDue, provider, err,
                   locked, permits>>
    /\ UNCHANGED <<limiterVars, listingVars>>

\* ------------------------------------------------------- the rate limiter
\* (now - self.start) as u64
Elapsed(t) == t % Modulus

\* (now - (self.start + reset as u128)) as u64: the difference modulo the
\* width of the counter.
WaitTime(t, r) == (t - r) % Modulus

\* now - (self.start + reset as u128) underflows in u128.
Underflows(t, r) == t < r

\* try_ready returns true to caller c.
ReturnTrue(c) ==
    /\ cpc' = [cpc EXCEPT ![c] = "idle"]
    /\ mode' = [mode EXCEPT ![c] = "none"]
    /\ granted' = granted + 1

\* try_ready returns false to caller c: a ready call goes on to sleep.
ReturnFalse(c) ==
    /\ IF mode[c] = "ready"
         THEN /\ cpc' = [cpc EXCEPT ![c] = "ready_load_reset"]
              /\ mode' = mode
         ELSE /\ cpc' = [cpc EXCEPT ![c] = "idle"]
              /\ mode' = [mode EXCEPT ![c] = "none"]
    /\ granted' = granted

\* A caller calls try_ready.
CallTryReady(c) ==
    /\ cpc[c] = "idle"
    /\ calls[c] < MaxCalls
    /\ calls' = [calls EXCEPT ![c] = @ + 1]
    /\ mode' = [mode EXCEPT ![c] = "try_ready"]
    /\ cpc' = [cpc EXCEPT ![c] = "load_used"]
    /\ UNCHANGED <<used, reset, now, elapsed, resetSeen, slept, wait, granted>>
    /\ UNCHANGED <<engineVars, listingVars>>

\* A caller calls ready, which calls try_ready.
CallReady(c) ==
    /\ cpc[c] = "idle"
    /\ calls[c] < MaxCalls
    /\ calls' = [calls EXCEPT ![c] = @ + 1]
    /\ mode' = [mode EXCEPT ![c] = "ready"]
    /\ cpc' = [cpc EXCEPT ![c] = "load_used"]
    /\ UNCHANGED <<used, reset, now, elapsed, resetSeen, slept, wait, granted>>
    /\ UNCHANGED <<engineVars, listingVars>>

\* if self.used.load(Acquire) < self.capacity
LoadUsed(c) ==
    /\ cpc[c] = "load_used"
    /\ cpc' = [cpc EXCEPT ![c] = IF used < Capacity THEN "fetch_add" ELSE "read_now"]
    /\ UNCHANGED <<used, reset, now, mode, elapsed, resetSeen, slept, wait, calls,
                   granted>>
    /\ UNCHANGED <<engineVars, listingVars>>

\* self.used.fetch_add(1, Release); true
FetchAdd(c) ==
    /\ cpc[c] = "fetch_add"
    /\ used' = used + 1
    /\ ReturnTrue(c)
    /\ UNCHANGED <<reset, now, elapsed, resetSeen, slept, wait, calls>>
    /\ UNCHANGED <<engineVars, listingVars>>

\* let now = SystemTime::now()...; let elapsed = (now - self.start) as u64;
ReadNow(c) ==
    /\ cpc[c] = "read_now"
    /\ elapsed' = [elapsed EXCEPT ![c] = Elapsed(now)]
    /\ cpc' = [cpc EXCEPT ![c] = "load_reset"]
    /\ UNCHANGED <<used, reset, now, mode, resetSeen, slept, wait, calls, granted>>
    /\ UNCHANGED <<engineVars, listingVars>>

\* if elapsed > self.reset.load(Acquire) { ... } else { false }
LoadReset(c) ==
    /\ cpc[c] = "load_reset"
    /\ IF elapsed[c] > reset
         THEN /\ cpc' = [cpc EXCEPT ![c] = "store_used"]
              /\ UNCHANGED <<mode, granted>>
         ELSE ReturnFalse(c)
    /\ elapsed' = [elapsed EXCEPT ![c] = 0]
    /\ UNCHANGED <<used, reset, now, resetSeen, slept, wait, calls>>
    /\ UNCHANGED <<engineVars, listingVars>>

\* self.used.store(1, Release);
StoreUsed(c) ==
    /\ cpc[c] = "store_used"
    /\ used' = 1
    /\ cpc' = [cpc EXCEPT ![c] = "add_reset"]
    /\ UNCHANGED <<reset, now, mode, elapsed, resetSeen, slept, wait, calls, granted>>
    /\ UNCHANGED <<engineVars, listingVars>>

\* self.reset.fetch_add(self.period, Release); true
AddResetToNow(c) ==
    /\ cpc[c] = "add_reset"
    /\ reset' = (now + Period) % Modulus
    /\ ReturnTrue(c)
    /\ UNCHANGED <<used, now, elapsed, resetSeen, slept, wait, calls>>
    /\ UNCHANGED <<engineVars, listingVars>>

AddReset(c) ==
    /\ cpc[c] = "add_reset"
    /\ reset' = (reset + Period) % Modulus
    /\ ReturnTrue(c)
    /\ UNCHANGED <<used, now, elapsed, resetSeen, slept, wait, calls>>
    /\ UNCHANGED <<engineVars, listingVars>>

\* ready: let reset = self.reset.load(Relaxed);
ReadyLoadReset(c) ==
    /\ cpc[c] = "ready_load_reset"
    /\ resetSeen' = [resetSeen EXCEPT ![c] = reset]
    /\ cpc' = [cpc EXCEPT ![c] = "ready_wait_time"]
    /\ UNCHANGED <<used, reset, now, mode, elapsed, slept, wait, calls, granted>>
    /\ UNCHANGED <<engineVars, listingVars>>

\* ready: let now = ...; let wait_time = Duration::from_nanos(
\*     (now - (self.start + reset as u128)) as u64); sleep(wait_time)
\* The subtraction wraps where the build has no overflow checks.
ReadyWaitTime(c) ==
    /\ cpc[c] = "ready_wait_time"
    /\ slept' = [slept EXCEPT ![c] = now]
    /\ wait' = [wait EXCEPT ![c] = WaitTime(now, resetSeen[c])]
    /\ cpc' = [cpc EXCEPT ![c] = "sleep"]
    /\ UNCHANGED <<used, reset, now, mode, elapsed, resetSeen, calls, granted>>
    /\ UNCHANGED <<engineVars, listingVars>>

\* ready: the same subtraction panics ("attempt to subtract with overflow")
\* where the build has overflow checks.
ReadyWaitTimePanic(c) ==
    /\ cpc[c] = "ready_wait_time"
    /\ Underflows(now, resetSeen[c])
    /\ cpc' = [cpc EXCEPT ![c] = "panicked"]
    /\ UNCHANGED <<used, reset, now, mode, elapsed, resetSeen, slept, wait, calls,
                   granted>>
    /\ UNCHANGED <<engineVars, listingVars>>

\* sleep(wait_time) is over: the loop of ready calls try_ready again.
Wake(c) ==
    /\ cpc[c] = "sleep"
    /\ now >= slept[c] + wait[c]
    /\ cpc' = [cpc EXCEPT ![c] = "load_used"]
    /\ resetSeen' = [resetSeen EXCEPT ![c] = 0]
    /\ slept' = [slept EXCEPT ![c] = 0]
    /\ wait' = [wait EXCEPT ![c] = 0]
    /\ UNCHANGED <<used, reset, now, mode, elapsed, calls, granted>>
    /\ UNCHANGED <<engineVars, listingVars>>

\* The clock advances by one unit; `granted` counts within one window and
\* starts again when the clock passes a multiple of Period.
Tick ==
    /\ now < MaxTime
    /\ now' = now + 1
    /\ granted' = IF now > 0 /\ now % Period = 0 THEN 0 ELSE granted
    /\ UNCHANGED <<used, reset, cpc, mode, elapsed, resetSeen, slept, wait, calls>>
    /\ UNCHANGED <<engineVars, listingVars>>

CallerStep(c) ==
    \/ LoadUsed(c)
    \/ FetchAdd(c)
    \/ ReadNow(c)
    \/ LoadReset(c)
    \/ StoreUsed(c)
    \/ AddReset(c)
    \/ ReadyLoadReset(c)
    \/ ReadyWaitTime(c)
    \/ ReadyWaitTimePanic(c)
    \/ Wake(c)

LimiterNext ==
    \/ \E c \in Callers : CallTryReady(c)
    \/ \E c \in Callers : CallReady(c)
    \/ \E c \in Callers : LoadUsed(c)
    \/ \E c \in Callers : FetchAdd(c)
    \/ \E c \in Callers : ReadNow(c)
    \/ \E c \in Callers : LoadReset(c)
    \/ \E c \in Callers : StoreUsed(c)
    \/ \E c \in Callers : AddReset(c)
    \/ \E c \in Callers : ReadyLoadReset(c)
    \/ \E c \in Callers : ReadyWaitTime(c)
    \/ \E c \in Callers : ReadyWaitTimePanic(c)
    \/ \E c \in Callers : Wake(c)
    \/ Tick

\* ------------------------------------------------- the Route 53 listing
\* Route53Provider::list_records returns Ok(names) for the zone's answer.
R53ListRecords ==
    /\ lpc = "start"
    /\ names' = Route53List(zone)
    /\ lpc' = "listed"
    /\ UNCHANGED <<zone, wanted, toDelete>>
    /\ UNCHANGED <<engineVars, limiterVars>>

\* update_routes filters the listing against the desired set of the pass.
DiffDeletes ==
    /\ lpc = "listed"
    /\ \E w \in SUBSET {Name(h, 0) : h \in ZoneHosts} :
         /\ wanted' = w
         /\ toDelete' = ToDelete(names, w, {})
    /\ lpc' = "diffed"
    /\ UNCHANGED <<zone, names>>
    /\ UNCHANGED <<engineVars, limiterVars>>

ListingNext ==
    \/ R53ListRecords
    \/ DiffDeletes

\* A Route53Provider and its zone; no pass runs and no caller is at the
\* limiter.
ListingStart == EngineInit({{}}, {"route53"}) /\ LimiterInit /\ ListingInit
ListingSpec == ListingStart /\ [][ListingNext]_vars

\* The engine alone changes the provider's records.
NextClosed ==
    \/ StartPass
    \/ GetRoutesOk
    \/ GetRoutesErr
    \/ CreateOk
    \/ CreateErr
    \/ ListOk
    \/ ListErr
    \/ DeleteOk
    \/ DeleteErr
    \/ Timeout
    \/ Advance

Next ==
    \/ StartPass
    \/ GetRoutesOk
    \/ GetRoutesErr
    \/ CreateOk
    \/ CreateErr
    \/ ListOk
    \/ ListErr
    \/ DeleteOk
    \/ DeleteErr
    \/ Timeout
    \/ Advance
    \/ ExternalChange

Spec == Init /\ [][Next]_vars

\* An engine started with an empty observed state whose Router and Provider
\* are reachable and answer in time: the only error of a pass is a refusal
\* of the request by the provider.
NextNoFaults ==
    \/ StartPass
    \/ GetRoutesOk
    \/ CreateOk
    \/ CreateRefused
    \/ ListOk
    \/ DeleteOk
    \/ Advance

SpecNoFaults ==
    /\ Init
    /\ [][NextNoFaults]_vars
    /\ WF_vars(StartPass)
    /\ WF_vars(GetRoutesOk)
    /\ WF_vars(CreateOk)
    /\ WF_vars(CreateRefused)
    /\ WF_vars(ListOk)
    /\ WF_vars(DeleteOk)
    /\ WF_vars(Advance)

\* Passes with no change of the provider's records from outside the engine.
SpecClosed == Init /\ [][NextClosed]_vars

\* SpecClosed on a runtime that may take the tick of run() late.
NextLate ==
    \/ NextClosed
    \/ Late

SpecLate == Init /\ [][NextLate]_vars

\* SpecClosed with time that passes and a run() that is scheduled when its
\* tick is due.
SpecFair ==
    /\ SpecClosed
    /\ WF_vars(Advance)
    /\ WF_vars(StartPass)

\* One limiter, its callers and the clock; no pass runs.
LimiterStart == EngineInit({{}}, {"cloudflare"}) /\ LimiterInit /\ ListingIdle
LimiterSpec == LimiterStart /\ [][LimiterNext]_vars

\* The clock advances and a caller inside a call is scheduled.
LimiterFair ==
    /\ LimiterSpec
    /\ WF_vars(Tick)
    /\ \A c \in Callers : WF_vars(CallerStep(c))

\* ------------------------------------------------------------- properties
Issued(stages) == stage \in stages
PassOk == pc = "idle" /\ result = "ok"
NoDuplicates(s) == \A i, j \in 1..Len(s) : s[i] = s[j] => i = j

\* C1 (convergence): when a pass has returned Ok(()), the observed state is
\* exactly the set of distinct hosts of the Router's answer of that pass,
\* whatever was observed before and whatever the provider listed.
C1_Convergence ==
    PassOk => current_routes = {resp[i].host : i \in 1..Len(resp)}

\* A pass returned Ok(()) and dropped a host that was observed before it.
C1_Witness ==
    /\ PassOk
    /\ before \ current_routes # {}
    /\ current_routes # {}
    /\ Len(resp) > Cardinality(current_routes)

\* C2 (no state mutation on failure): after a pass that ended in a Router
\* error or a Provider error (create, list or delete) the observed state is
\* the one the pass started with, and the only step that ever changes the
\* observed state is the one that ends a pass with Ok(()).
C2_NoMutationOnFailure ==
    /\ [](result \in {"router_err", "provider_err"} => current_routes = before)
    /\ [][current_routes' # current_routes
            => pc # "idle" /\ pc' = "idle" /\ result' = "ok" /\ stage' = "commit"]_vars

\* A delete batch failed in a pass whose desired set differs from the
\* observed state.
C2_Witness ==
    /\ result = "provider_err"
    /\ stage = "delete"
    /\ routes # before
    /\ current_routes = before

\* C6 as stated: with desired {a, b} and a provider listing {b, c} the pass
\* creates exactly {a} and deletes exactly {c}, whatever the observed state.
C6_Original ==
    (Issued({"delete", "commit"}) /\ routes = {"a", "b"} /\ Range(listed) = {"b", "c"})
        => Range(createCalls) = {"a"} /\ Range(delCalls) = {"c"}

\* C6 (diff correctness, amended): with desired {a, b}, a provider listing
\* {b, c} and an observed state at the start of the pass that holds b and
\* not a, the pass creates exactly {a} and deletes exactly {c}.
C6_DiffCorrect ==
    (/\ Issued({"delete", "commit"})
     /\ routes = {"a", "b"}
     /\ Range(listed) = {"b", "c"}
     /\ "b" \in before
     /\ "a" \notin before)
        => Range(createCalls) = {"a"} /\ Range(delCalls) = {"c"}

\* The case of C6 with c never observed by the engine.
C6_Witness ==
    /\ PassOk
    /\ routes = {"a", "b"}
    /\ Range(listed) = {"b", "c"}
    /\ before = {"b"}
    /\ createCalls = <<"a">>
    /\ delCalls = <<"c">>

\* C7 (idempotence), with no change of the provider from outside: a pass
\* that follows a pass that returned Ok(()) and gets the same desired set
\* issues no create_record and no delete_record, one get_routes and one
\* list_records.
C7_Idempotent ==
    (prev = <<routes>> /\ Issued({"create", "list", "delete", "commit"}))
        => /\ createCalls = <<>>
           /\ delCalls = <<>>
           /\ nGet = 1
           /\ nList = 1

\* A second pass with the same, non-empty, desired set has returned Ok(()).
C7_Witness ==
    /\ PassOk
    /\ prev = <<routes>>
    /\ routes # {}
    /\ nList = 1

\* C8 as stated, with no change of the provider from outside: whenever a
\* pass has returned Ok(()) the provider's records are the desired set.
C8_ProviderSynced ==
    PassOk => records = routes

\* C9: the create_record calls of a pass are the desired hosts that were not
\* observed when the pass started, one call each.
C9_CreateExactly ==
    Issued({"create", "list", "delete", "commit"})
        => /\ Range(createCalls) = {h \in {resp[i].host : i \in 1..Len(resp)} : h \notin before}
           /\ NoDuplicates(createCalls)

\* Observed {}, Router [a], listing without stale hosts: one create for a,
\* no delete.
C9_Witness ==
    /\ PassOk
    /\ before = {}
    /\ resp = <<Route(1, "a")>>
    /\ createCalls = <<"a">>
    /\ delCalls = <<>>
    /\ current_routes = {"a"}

\* C10: the delete_record calls of a pass that reaches the delete step are
\* the listed hosts that are not desired, whatever the observed state.
C10_DeleteExactly ==
    Issued({"delete", "commit"})
        => /\ Range(delCalls) = Range(listed) \ {resp[i].host : i \in 1..Len(resp)}
           /\ Range(delCalls) \cap routes = {}

\* A host the engine neither observed nor created in this pass is deleted,
\* while an observed host that is still desired is not.
C10_Witness ==
    /\ Issued({"delete"})
    /\ \E h \in Range(delCalls) : h \notin before /\ h \notin Range(createCalls)
    /\ \E h \in Range(listed) : h \in routes /\ h \in before

\* C3 as stated, for callers that never overlap (c1 alone has called): no
\* more than Capacity try_ready calls return true within one window of
\* length Period of the clock, the windows being laid out from `start` the
\* way the limiter lays them out.
C3_WindowBound ==
    calls["c2"] = 0 => granted <= Capacity

\* The instant caller c waits for lies at or after MaxTime, where the clock
\* of the model ends: the reset instant itself, or the end of a sleep that
\* was computed without underflow.
BeyondClock(c) ==
    \/ reset >= MaxTime
    \/ /\ cpc[c] = "sleep"
       /\ ~Underflows(slept[c], resetSeen[c])
       /\ slept[c] + wait[c] > MaxTime

\* C4 as stated: every ready call completes (within the clock of the model),
\* and it completes only in a step in which one of its own try_ready calls
\* returns true.
C4_EventualAdmission ==
    /\ \A c \in Callers :
         (mode[c] = "ready") ~> (mode[c] = "none" \/ BeyondClock(c))
    /\ [][\A c \in Callers :
            (mode[c] = "ready" /\ mode'[c] = "none")
                => cpc[c] \in {"fetch_add", "add_reset"}]_vars

\* C5 as stated, for a caller that is alone: the wait_time ready computes after a failed try_ready is
\* the time left until the reset instant, (start + reset) - now (none if
\* the instant has passed), between 0 and one period, and computing it
\* neither underflows nor wraps.
C5_WaitUntilReset ==
    calls["c2"] = 0 =>
        /\ cpc["c1"] # "panicked"
        /\ cpc["c1"] = "sleep"
             => /\ wait["c1"] = IF resetSeen["c1"] >= slept["c1"]
                                   THEN resetSeen["c1"] - slept["c1"] ELSE 0
                /\ wait["c1"] \in 0..Period

\* C16 as stated: in every reachable state, whatever the interleaving of the
\* callers' loads, increments and stores, used is at most the capacity.
C16_UsedWithinCapacity ==
    used <= Capacity

\* C17 as stated, for a caller that is alone (so that no two calls race):
\* however long the limiter has been idle, no more than 2 x Capacity
\* try_ready calls return true within one window of length Period.
C17_NoAccumulation ==
    calls["c2"] = 0 => granted <= 2 * Capacity

\* C18 (window advance), for a call no other caller interleaves with: a
\* try_ready call that found used = capacity and read a time past the reset
\* instant sets used to 1, adds exactly one period to reset and returns true;
\* one that read a time not past the reset instant returns false and leaves
\* used and reset as they are.
C18_WindowAdvance ==
    [][calls["c2"] = 0 =>
        /\ (cpc["c1"] = "load_reset" /\ cpc'["c1"] # "load_reset")
             => /\ used = Capacity
                /\ used' = used
                /\ reset' = reset
                /\ granted' = granted
                /\ IF elapsed["c1"] > reset
                     THEN cpc'["c1"] = "store_used"
                     ELSE cpc'["c1"] = IF mode["c1"] = "ready"
                                         THEN "ready_load_reset" ELSE "idle"
        /\ (cpc["c1"] = "store_used" /\ cpc'["c1"] # "store_used")
             => /\ used' = 1
                /\ reset' = reset
                /\ cpc'["c1"] = "add_reset"
        /\ (cpc["c1"] = "add_reset" /\ cpc'["c1"] # "add_reset")
             => /\ used = 1
                /\ used' = 1
                /\ reset' = reset + Period
                /\ granted' = granted + 1
                /\ cpc'["c1"] = "idle"
                /\ mode'["c1"] = "none"]_vars

\* A lone caller has advanced the window once, in the current window and
\* more than one period after the reset instant it replaced: reset is one
\* period further, which is less than now, not now + Period.
C18_Witness ==
    /\ calls["c2"] = 0
    /\ cpc["c1"] = "idle"
    /\ used = 1
    /\ reset = 2 * Period
    /\ now > reset
    /\ granted >= 1

\* C19 as stated: no call of try_ready or ready ends in a panic.
C19_NeverPanics ==
    \A c \in Callers : cpc[c] # "panicked"

\* The ways a pass fails.
Failures == {"router_err", "provider_err", "timeout"}

\* C11 (the engine never terminates on a pass failure): run() never returns;
\* after a pass that ended in a Router error, a Provider error or a timeout
\* run() is back at interval.tick(), and a new pass is started later on.
C11_NeverTerminates ==
    /\ [](loop # "returned")
    /\ []((pc = "idle" /\ result \in Failures) => loop = "tick")
    /\ \A k \in Failures :
         (pc = "idle" /\ result = k) ~> (pc = "get_routes" /\ result = "none")

\* A pass is running that follows a pass that did not return Ok(()), itself
\* later than a pass that did.
C11_Witness ==
    /\ pc = "create"
    /\ prev = <<>>
    /\ current_routes # {}
    /\ loop = "pass"

\* C12 (at most one pass in flight): no state has two executions of
\* update_routes that have started and not ended, and a pass starts only
\* from a state with none in flight, the one before it (if any) having
\* returned Ok(()), failed or been dropped by the timeout.
C12_OnePassAtATime ==
    /\ [](inFlight <= 1 /\ (inFlight = 1 <=> pc # "idle"))
    /\ [][inFlight' > inFlight
            => /\ inFlight = 0
               /\ pc = "idle"
               /\ stage = "none" \/ result \in Failures \cup {"ok"}]_vars

\* A pass that follows a pass that returned Ok(()) has two delete_record
\* calls in flight, the only execution of update_routes.
C12_Witness ==
    /\ inFlight = 1
    /\ pc = "delete"
    /\ Cardinality(pending) >= 2
    /\ prev # <<>>

\* C13 (deadline): no pass is running later than update_interval after its
\* start; a pass ends in a timeout only at that deadline, with the observed
\* state it started with, and leaves run() at interval.tick() with a tick
\* due, which starts the next pass.
C13_Deadline ==
    /\ [](pc # "idle" => age <= UpdateInterval)
    /\ [](result = "timeout"
            => /\ age = UpdateInterval
               /\ current_routes = before
               /\ loop = "tick"
               /\ tickDue)
    /\ [][result' = "timeout" /\ result # "timeout"
            => pc # "idle" /\ pc' = "idle" /\ age = UpdateInterval]_vars

\* A pass with deletes in flight and a desired set that differs from the
\* observed state has been dropped at its deadline.
C13_Witness ==
    /\ result = "timeout"
    /\ pc = "idle"
    /\ stage = "delete"
    /\ routes # before
    /\ before # {}

\* C14 as stated: a create_record call for a host that has its record at the
\* provider succeeds and leaves the records as they are, the one record of
\* the host included, whichever the Provider implementation.
C14_CreateIdempotent ==
    pc = "create" =>
        \A i \in pending :
            createCalls[i] \in records =>
                /\ CreateRecord(provider, records, createCalls[i]).result = "ok"
                /\ CreateRecord(provider, records, createCalls[i]).records = records

\* The errors of delete_record for a host without a record.
NotFoundErrors == {NotFound(k) : k \in ProviderKinds}

\* C15 (not found on delete): a delete_record call in flight for a host
\* that has no record at the provider ends in the provider's not-found
\* error, sends no delete request and leaves the records alone; a pass that
\* ended with that error ended in the delete step as a provider error, with
\* the observed state it started with, and the step that ended it removed
\* no record but those of the other calls of the batch.
C15_DeleteNotFound ==
    /\ [](pc = "delete" =>
            \A i \in pending :
                delCalls[i] \notin records =>
                    LET call == DeleteRecord(provider, records, delCalls[i]) IN
                    /\ call.result = NotFound(provider)
                    /\ "delete" \notin Range(call.trace)
                    /\ call.records = records)
    /\ [](err \in NotFoundErrors =>
            /\ err = NotFound(provider)
            /\ result = "provider_err"
            /\ stage = "delete"
            /\ pc = "idle"
            /\ current_routes = before)
    /\ [][err' \in NotFoundErrors /\ err \notin NotFoundErrors
            => /\ pc = "delete"
               /\ \E i \in pending :
                    /\ delCalls[i] \notin records
                    /\ records' \subseteq records
                    /\ records \ records' \subseteq {delCalls[j] : j \in pending \ {i}}]_vars

\* A pass of an Updater on Route 53 has ended with MissingRecord: the record
\* of a listed host was gone when its delete_record call looked for it.
C15_Witness ==
    /\ err = "MissingRecord"
    /\ provider = "route53"
    /\ result = "provider_err"
    /\ Range(delCalls) \ records # {}
    /\ current_routes = before
    /\ routes # before

\* Every remote request of the trace comes right after an acquire.
Guarded(trace) ==
    \A j \in 1..Len(trace) :
        trace[j] # "acquire" => j > 1 /\ trace[j - 1] = "acquire"

\* C20 as stated: each remote request of every provider call in flight
\* (list_records, create_record, delete_record) comes right after an acquire
\* on the provider's rate limiter.
C20_RequestsAcquire ==
    /\ pc = "list" => Guarded(ListRecordsTrace(provider))
    /\ pc = "create" =>
         \A i \in pending :
             Guarded(CreateRecord(provider, records, createCalls[i]).trace)
    /\ pc = "delete" =>
         \A i \in pending :
             Guarded(DeleteRecord(provider, records, delCalls[i]).trace)

\* The steps of a pass, in the order of update_routes.
StepOrder ==
    {<<"get", "create">>, <<"get", "list">>, <<"create", "list">>,
     <<"list", "delete">>, <<"list", "commit">>, <<"delete", "commit">>}

\* C23 (step order): within a pass the steps are get_routes, the creates,
\* list_records, the deletes, the commit. list_records is called only by the
\* step in which the last create still in flight returns Ok (or by get_routes
\* when there is nothing to create); the deletes are issued only by the step
\* in which list_records returns Ok; the commit follows the last delete.
C23_StepOrder ==
    /\ [](pc = "get_routes" => createCalls = <<>> /\ nList = 0 /\ delCalls = <<>>)
    /\ [](pc = "create" => nList = 0 /\ delCalls = <<>>)
    /\ [](pc = "list" => pending = {} /\ nList = 1 /\ delCalls = <<>>)
    /\ [](pc = "delete" => nList = 1)
    /\ [][stage' # stage /\ stage' # "get" => <<stage, stage'>> \in StepOrder]_vars
    /\ [][nList' # nList /\ nList' # 0
            => \/ pc = "get_routes" /\ createCalls' = <<>>
               \/ /\ pc = "create"
                  /\ Cardinality(pending) = 1
                  /\ result' = "none"
                  /\ \A i \in pending : createCalls[i] \in records']_vars
    /\ [][delCalls' # delCalls /\ delCalls' # <<>>
            => pc = "list" /\ result' = "none" /\ listed' = ListRecords(records)]_vars
    /\ [][stage' = "commit" /\ stage # "commit"
            => \/ pc = "list" /\ delCalls' = <<>>
               \/ pc = "delete" /\ Cardinality(pending) = 1]_vars

\* A pass has issued two creates, then list_records, then a delete, and is
\* waiting for the delete.
C23_Witness ==
    /\ pc = "delete"
    /\ Len(createCalls) = 2
    /\ Len(delCalls) = 1
    /\ nList = 1

\* C24 (abort at the point of failure): a pass that ended with a Router error
\* has issued no Provider call; a pass that ended with an error of a create
\* has issued neither list_records nor a delete; a pass that ended with an
\* error of list_records has issued no delete; and the step that ends a pass
\* in an error, like every step between two passes, issues no call.
C24_AbortAtFailure ==
    /\ [](err = "RouterError" =>
            /\ result = "router_err"
            /\ stage = "get"
            /\ createCalls = <<>> /\ nList = 0 /\ delCalls = <<>>)
    /\ [](result = "provider_err" /\ stage = "create" => nList = 0 /\ delCalls = <<>>)
    /\ [](result = "provider_err" /\ stage = "list" => nList = 1 /\ delCalls = <<>>)
    /\ [][result' \in {"router_err", "provider_err"} /\ result = "none"
            => UNCHANGED <<createCalls, nList, delCalls, nGet>>]_vars
    /\ [][pc = "idle" /\ pc' = "idle"
            => UNCHANGED <<createCalls, nList, delCalls, nGet>>]_vars

\* A create failed in a pass that had a record to delete: neither
\* list_records nor the delete was issued.
C24_Witness ==
    /\ result = "provider_err"
    /\ stage = "create"
    /\ records \ routes # {}
    /\ nList = 0
    /\ delCalls = <<>>

\* C25 (no rollback): the step that ends a pass in an error of its create
\* batch removes no record and the one that ends it in an error of its delete
\* batch adds none (what the batch applied stays); between two passes the
\* engine changes no record (no compensating call); and the next pass, whose
\* observed state is the one the failed pass started with, issues a create
\* for every desired host that is not observed, the hosts that already have
\* their record included.
C25_NoRollback ==
    /\ [][pc = "create" /\ pc' = "idle" => records \subseteq records']_vars
    /\ [][pc = "delete" /\ pc' = "idle" /\ result' # "ok" => records' \subseteq records]_vars
    /\ [][pc = "idle" /\ pc' = "idle" => records' = records]_vars
    /\ [][pc = "idle" /\ pc' # "idle" /\ result \in Failures
            => current_routes' = before /\ before' = before]_vars
    /\ [](Issued({"create", "list", "delete", "commit"}) =>
            Range(createCalls) = routes \ before)

\* A create batch of two calls, issued from an empty observed state, has
\* ended in an error with the records of both hosts at the provider; the
\* observed state is still empty, so the next pass asks for both again.
C25_Witness ==
    /\ result = "provider_err"
    /\ stage = "create"
    /\ provider = "cloudflare"
    /\ prev = <<>>
    /\ Len(createCalls) = 2
    /\ Range(createCalls) \subseteq records
    /\ before = {}
    /\ current_routes = {}

\* The routes of the answer that name the host.
RoutesOf(answer, h) == {i \in 1..Len(answer) : answer[i].host = h}

\* C28 (duplicate hosts collapse): however many routes of the Router's
\* answer name a host, the pass issues at most one create_record for it, and
\* after Ok(()) the observed state has as many hosts as the answer has
\* distinct ones.
C28_DuplicatesCollapse ==
    /\ Issued({"create", "list", "delete", "commit"}) =>
         /\ \A h \in Hosts :
              Cardinality({i \in 1..Len(createCalls) : createCalls[i] = h}) <= 1
         /\ Len(createCalls) <= Cardinality(CollectHosts(resp))
    /\ PassOk =>
         /\ \A h \in Hosts : h \in current_routes <=> RoutesOf(resp, h) # {}
         /\ Cardinality(current_routes) <= Len(resp)

\* The Router answered three routes for the one host a: one create, and the
\* committed observed state is {a}.
C28_Witness ==
    /\ PassOk
    /\ Len(resp) = 3
    /\ Cardinality(RoutesOf(resp, "a")) = 3
    /\ createCalls = <<"a">>
    /\ current_routes = {"a"}

\* The callers that have found the window over and are between the check of
\* the reset instant and their return.
Advancing == {c \in Callers : cpc[c] \in {"store_used", "add_reset"}}

\* C27 as stated: the window advance is atomic. Of the callers that find
\* used = capacity with the reset instant passed, one alone advances the
\* window (the others are counted by fetch_add against the new window), and
\* the reset instant moves by one period for one passed instant, so that it
\* is never more than a period ahead of the clock.
C27_AtomicAdvance ==
    /\ Cardinality(Advancing) <= 1
    /\ reset <= now + Period

\* C26 as stated (restart convergence): a pass that starts from the empty
\* observed state issues a create for every desired host, and when the
\* provider holds a record for each of them already, a pass eventually
\* returns Ok(()) and commits the desired set.
C26_RestartConvergence ==
    /\ [](Issued({"create", "list", "delete", "commit"}) /\ before = {}
            => Range(createCalls) = routes)
    /\ (pc = "create" /\ before = {} /\ routes \subseteq records)
          ~> (PassOk /\ current_routes = routes)

\* C29 (lock release): the lock of the observed state is held exactly while
\* a pass is running; every step that ends a pass, with Ok(()), with an
\* error or by the timeout, leaves it free, and every pass starts with the
\* lock free, so that its lock().await completes at once.
C29_LockReleased ==
    /\ [](locked <=> pc # "idle")
    /\ [][pc # "idle" /\ pc' = "idle" => ~locked']_vars
    /\ [][pc = "idle" /\ pc' # "idle" => ~locked /\ locked']_vars

\* A pass was dropped by the timeout while it waited for its deletes, and
\* the lock is free.
C29_Witness ==
    /\ result = "timeout"
    /\ stage = "delete"
    /\ pc = "idle"
    /\ ~locked
    /\ loop = "tick"
    /\ tickDue

\* C21 (missed ticks are skipped): a pass starts only by taking a due tick,
\* and once it has started no tick is due, however many scheduled instants
\* went by untaken; a tick becomes due only when the interval reaches a
\* scheduled instant. Hence each pass start has a scheduled instant of its
\* own before it, and a pass that follows an overrun starts at a later
\* scheduled instant, not back to back.
C21_MissedTicksSkipped ==
    /\ [][inFlight' > inFlight => tickDue /\ ~tickDue']_vars
    /\ [][tickDue' /\ ~tickDue => phase' = 0 /\ phase = UpdateInterval - 1]_vars
    /\ [](loop = AwaitPass /\ age = 0 => ~tickDue)

\* A pass has just started at a scheduled instant that went by with the
\* tick before it untaken: that instant's own tick is not due.
C21_Witness ==
    /\ loop = AwaitPass
    /\ age = 0
    /\ missed
    /\ phase = 0
    /\ ~tickDue

\* The record sets of the listing that list_records is to return: type CNAME
\* with the configured destination as value.
Kept == {i \in 1..Len(zone) : zone[i].type = "CNAME" /\ zone[i].value = Dest}

\* C22 (Route 53 list_records): the result holds one name per record set of
\* type CNAME whose value is the configured destination and none for any
\* other record set, in the order of the listing, each name without one
\* trailing dot (and unchanged when it ends with none).
C22_Route53Listing ==
    lpc # "start" =>
        /\ Len(names) = Cardinality(Kept)
        /\ \A i \in Kept :
             LET k == Cardinality({j \in Kept : j <= i}) IN
             /\ names[k].host = zone[i].name.host
             /\ names[k].dots = IF zone[i].name.dots = 0 THEN 0
                                ELSE zone[i].name.dots - 1

\* The listing of the unit test: a CNAME to the destination, a record of
\* another type and a CNAME to another value; the result is the first name
\* without its dot.
C22_Witness ==
    /\ lpc = "listed"
    /\ Len(zone) = 3
    /\ zone[1] = [name |-> Name("a", 1), type |-> "CNAME", value |-> Dest]
    /\ zone[2] = [name |-> Name("b", 1), type |-> "A", value |-> Dest]
    /\ zone[3] = [name |-> Name("b", 1), type |-> "CNAME", value |-> OtherDest]
    /\ names = <<Name("a", 0)>>

\* C30 as stated: the delete step asks for at most one delete_record per
\* host, also when the listing it filters names a host more than once.
C30_OneDeletePerHost ==
    lpc = "diffed" =>
        \A i, j \in 1..Len(toDelete) : toDelete[i] = toDelete[j] => i = j

\* The hosts of the running or last pass that were observed when it started
\* and are still desired.
Kept31 == before \cap routes

\* C31 (an observed host is not created again): a pass issues no
\* create_record for a host that was observed at its start and is desired,
\* whether or not the provider holds its record; no step of the pass adds
\* the record of such a host; and a pass that returns Ok(()) keeps the host
\* observed.
C31_ObservedNotRecreated ==
    /\ [](Issued({"create", "list", "delete", "commit"}) =>
            Kept31 \cap Range(createCalls) = {})
    /\ [][pc # "idle" /\ (pc' # pc \/ pending' # pending)
            => \A h \in Kept31 : h \in records' => h \in records]_vars
    /\ [](PassOk => Kept31 \subseteq current_routes)

\* A pass returned Ok(()) with no create while the record of a host it kept
\* observed was missing at the provider.
C31_Witness ==
    /\ PassOk
    /\ "a" \in Kept31
    /\ "a" \in current_routes
    /\ "a" \notin Range(listed)
    /\ "a" \notin records
    /\ createCalls = <<>>

\* C32 (permits of a Cloudflare delete): a delete_record call in flight at
\* the Cloudflare provider acquires two permits when the host has a record
\* (one before the listing, one before the delete request) and one when it
\* has none (the listing alone); the list_records call and the deletes that
\* have returned Ok have acquired one permit and two each, so that a pass
\* that returned Ok(()) after k deletes has acquired 2k + 1.
C32_DeletePermits ==
    provider = "cloudflare" =>
        /\ pc = "delete" =>
             /\ \A i \in pending :
                  LET call == DeleteRecord(provider, records, delCalls[i]) IN
                  IF delCalls[i] \in records
                    THEN call.trace = <<"acquire", "list", "acquire", "delete">>
                    ELSE call.trace = <<"acquire", "list">>
             /\ permits = 1 + 2 * (Len(delCalls) - Cardinality(pending))
        /\ PassOk => permits = 2 * Len(delCalls) + 1

\* A pass on Cloudflare returned Ok(()) after two deletes: five permits.
C32_Witness ==
    /\ provider = "cloudflare"
    /\ PassOk
    /\ Len(delCalls) = 2
    /\ permits = 5

====
